---------------------------- MODULE Spec2Model ----------------------------
(***************************************************************************)
(* Model of the css selector builder (cssSelectorBuilder, an object with   *)
(* the fields result and index and the methods element, id, class, attr,   *)
(* pseudoClass, pseudoElement, combine, stringify) and of encodeToRot13.   *)
(*                                                                         *)
(* Strings are sequences of one-character strings; the ROT13 part works on *)
(* sequences of character codes.                                           *)
(***************************************************************************)
EXTENDS Integers, Sequences, FiniteSets, TLC

VARIABLES heap, ref, chain, hist, last, n, rotIn, rotOut, rotPc

vars == <<heap, ref, chain, hist, last, n, rotIn, rotOut, rotPc>>

builderVars == <<heap, ref, chain, hist, last, n>>

rotVars == <<rotIn, rotOut, rotPc>>

-----------------------------------------------------------------------------
(* Bounds of the model                                                     *)

\* number of client-side selector expressions (chains) under construction
NChains == 2

\* number of calls (add-operations, stringify) in a run on one expression
MaxCalls == 5

\* number of calls (add-operations, stringify, combine) in a run on NChains
\* expressions
MaxCallsShared == 4

\* longest input string of encodeToRot13
MaxStrLen == 3

Chains == 1..NChains

\* the object cssSelectorBuilder itself; object c > 0 is the object that
\* chain c got from element()
Root == 0

Objs == {Root} \cup Chains

\* the values handed to the add-operation of rank k: two where the order or
\* the replacement of the values shows in the text, one elsewhere
Values(k) == IF k \in {1, 3} THEN {<<"a">>, <<"b">>} ELSE {<<"a">>}

\* the value chain c uses when several chains are built side by side
ValueOf(c) == IF c = 1 THEN <<"a">> ELSE <<"b">>

\* the combinator tokens handed to combine
Combinators == {<<"+">>, <<"~">>}

Ranks == 1..6

NoError == "none"

DuplicateError == "Element, id and pseudo-element should not occur more then one time inside the selector"

OrderError == "Selector parts should be arranged in the following order: element, id, class, attribute, pseudo-class, pseudo-element"

-----------------------------------------------------------------------------
(* The builder object and its methods                                      *)

\* cssSelectorBuilder as declared: result: '', index: []
EmptyBuilder == [result |-> <<>>, index |-> <<>>]

\* Array.prototype.includes
includes(arr, x) == \E i \in 1..Len(arr) : arr[i] = x

\* this.index.forEach((item) => { if (item > rank) { ...; throw } })
forEachThrows(arr, rank) == \E i \in 1..Len(arr) : arr[i] > rank

\* the outcome of a method call: the receiver after the call, the error
\* thrown (or NoError), and the object returned when that is a new one
\* (fork = TRUE: `made` is returned; fork = FALSE: `this` is returned)
\* an error path that resets the text together with the index
Threw_clearsText(this, err) == [this |-> EmptyBuilder, thrown |-> err, fork |-> FALSE, made |-> EmptyBuilder]

Threw(this, err) == [this |-> [this EXCEPT !.index = <<>>], thrown |-> err, fork |-> FALSE, made |-> EmptyBuilder]

ReturnedThis(this) == [this |-> this, thrown |-> NoError, fork |-> FALSE, made |-> EmptyBuilder]

ReturnedNew(this, made) == [this |-> this, thrown |-> NoError, fork |-> TRUE, made |-> made]

element(this, value) ==
    IF includes(this.index, 1)
    THEN Threw(this, DuplicateError)
    ELSE ReturnedNew(this, [result |-> value, index |-> <<1>>])

\* id() with the order check made before the duplicate check
id_orderCheckFirst(this, value) ==
    IF forEachThrows(this.index, 2)
    THEN Threw(this, OrderError)
    ELSE IF includes(this.index, 2)
    THEN Threw(this, DuplicateError)
    ELSE ReturnedThis([result |-> this.result \o (<<"#">> \o value), index |-> Append(this.index, 2)])

id(this, value) ==
    IF includes(this.index, 2)
    THEN Threw(this, DuplicateError)
    ELSE IF forEachThrows(this.index, 2)
    THEN Threw(this, OrderError)
    ELSE ReturnedThis([result |-> this.result \o (<<"#">> \o value), index |-> Append(this.index, 2)])

\* class() putting its fragment in front of the text
class_prepends(this, value) ==
    IF forEachThrows(this.index, 3)
    THEN Threw(this, OrderError)
    ELSE ReturnedThis([result |-> (<<".">> \o value) \o this.result, index |-> Append(this.index, 3)])

class(this, value) ==
    IF forEachThrows(this.index, 3)
    THEN Threw(this, OrderError)
    ELSE ReturnedThis([result |-> this.result \o (<<".">> \o value), index |-> Append(this.index, 3)])

\* attr() comparing the ranks present with pseudoClass's rank
attr_wrongRank(this, value) ==
    IF forEachThrows(this.index, 5)
    THEN Threw(this, OrderError)
    ELSE ReturnedThis([result |-> this.result \o (<<"[">> \o value \o <<"]">>), index |-> Append(this.index, 4)])

attr(this, value) ==
    IF forEachThrows(this.index, 4)
    THEN Threw(this, OrderError)
    ELSE ReturnedThis([result |-> this.result \o (<<"[">> \o value \o <<"]">>), index |-> Append(this.index, 4)])

pseudoClass(this, value) ==
    IF forEachThrows(this.index, 5)
    THEN Threw(this, OrderError)
    ELSE ReturnedThis([result |-> this.result \o (<<":">> \o value), index |-> Append(this.index, 5)])

pseudoElement(this, value) ==
    IF forEachThrows(this.index, 6)
    THEN Threw(this, OrderError)
    ELSE IF includes(this.index, 6)
    THEN Threw(this, DuplicateError)
    ELSE ReturnedThis([result |-> this.result \o (<<":", ":">> \o value), index |-> Append(this.index, 6)])

\* stringify() that leaves this.index as it is
stringify_keepsIndex(this) == [res |-> this.result, this |-> [result |-> <<>>, index |-> this.index]]

\* stringify(): the text returned and the receiver afterwards
stringify(this) == [res |-> this.result, this |-> [result |-> <<>>, index |-> <<>>]]

\* the add-operation of rank k
AddOp(k, this, value) ==
    CASE k = 1 -> element(this, value)
      [] k = 2 -> id(this, value)
      [] k = 3 -> class(this, value)
      [] k = 4 -> attr(this, value)
      [] k = 5 -> pseudoClass(this, value)
      [] k = 6 -> pseudoElement(this, value)

\* combine(sel1, com, sel2) called on object `this`, with the operands given
\* as objects of the heap h: sel1.stringify() runs first, then
\* sel2.stringify(), then the assignment to this.result
combine(h, this, sel1, com, sel2) ==
    LET s1 == stringify(h[sel1])
        h1 == [h EXCEPT ![sel1] = s1.this]
        s2 == stringify(h1[sel2])
        h2 == [h1 EXCEPT ![sel2] = s2.this]
    IN  [h2 EXCEPT ![this].result = (s1.res \o (<<" ">> \o com \o <<" ">>)) \o s2.res]

-----------------------------------------------------------------------------
(* The callers: NChains selector expressions, each holding the builder     *)
(* value its last call returned (ref), starting from cssSelectorBuilder.   *)
(*                                                                         *)
(* chain, hist and last record what happened and are read by no method:    *)
(*   chain[c].want    the rendered fragments of c's calls, in call order,  *)
(*                    while valid; the composed text after a combine()     *)
(*   chain[c].top     the rank of c's last add-call (0: none yet)          *)
(*   chain[c].valid   c's calls so far are element() on cssSelectorBuilder *)
(*                    followed by fragments in non-decreasing rank order,  *)
(*                    element, id and pseudo-element at most once          *)
(*   chain[c].alone   the builder the same calls give on a builder of      *)
(*                    their own, starting empty                            *)
(*   chain[c].ok      neither c's chain nor its run alone raised an error  *)
(*   chain[c].fin     the chain was ended by stringify()                   *)
(*   chain[c].shared  the chain started on cssSelectorBuilder itself       *)
(*   chain[c].comb    the chain's value is the result of a combine()       *)
(*   chain[c].fresh   the chain started on a builder right after its       *)
(*                    stringify()                                          *)
(*   hist[o].added    the ranks added to object o since it was created or  *)
(*                    last stringified                                     *)
(*   hist[o].clean    no error was raised on o since then                  *)
(*   n                the calls left in the run                            *)
(*   last             the last call: operation, rank, value, chain,        *)
(*                    receiver, error thrown, text returned by stringify   *)
(*                    (ret); athrown and aret are the same for             *)
(*                    chain[c].alone; added and clean are hist[obj] before *)
(*                    the call, before is the receiver's text before the   *)
(*                    call (empty when the call made a new builder);       *)
(*                    track: the call belongs to a chain of add-calls      *)
(*                    started on cssSelectorBuilder with no error so far;  *)
(*                    fresh: it belongs to a chain started right after a   *)
(*                    stringify() of the receiver, with no error so far;   *)
(*                    afterCombine: it is the stringify() of the value a   *)
(*                    combine() just returned                              *)
(***************************************************************************)

\* the text of one fragment, per category
Render(k, v) ==
    CASE k = 1 -> v
      [] k = 2 -> <<"#">> \o v
      [] k = 3 -> <<".">> \o v
      [] k = 4 -> (<<"[">> \o v) \o <<"]">>
      [] k = 5 -> <<":">> \o v
      [] k = 6 -> <<":", ":">> \o v

Separator(com) == (<<" ">> \o com) \o <<" ">>

FreshChain(onRoot) == [want |-> <<>>, top |-> 0, valid |-> onRoot, alone |-> EmptyBuilder, ok |-> TRUE, fin |-> FALSE, shared |-> onRoot, comb |-> FALSE, fresh |-> FALSE]

FreshHist == [added |-> {}, clean |-> TRUE]

\* the chain a call of c belongs to: a new one after a stringify()
Cur(c) == IF chain[c].fin THEN [FreshChain(ref[c] = Root) EXCEPT !.fresh = TRUE] ELSE chain[c]

\* rank k may follow a chain whose last rank is top
Follows(top, k) == IF top = 0 THEN k = 1 ELSE k >= top /\ (k \in {1, 2, 6} => k > top)

NoCall == [op |-> "none", k |-> 0, v |-> <<>>, c |-> 0, obj |-> Root, thrown |-> NoError, athrown |-> NoError, ret |-> <<>>, aret |-> <<>>,
           added |-> {}, clean |-> TRUE, before |-> <<>>, track |-> FALSE, fresh |-> FALSE, afterCombine |-> FALSE]

TypeOK ==
    /\ n \in 0..(MaxCalls + MaxCallsShared)
    /\ \A c \in Chains : ref[c] \in {Root, c}

Init ==
    /\ heap = [o \in Objs |-> EmptyBuilder]
    /\ ref = [c \in Chains |-> Root]
    /\ chain = [c \in Chains |-> FreshChain(TRUE)]
    /\ hist = [o \in Objs |-> FreshHist]
    /\ last = NoCall
    /\ n = MaxCalls
    /\ rotIn = <<>>
    /\ rotOut = <<>>
    /\ rotPc = "idle"

\* chain c calls the add-operation of rank k with value v on the builder it
\* holds, and goes on with the builder returned
Add(c, k, v) ==
    LET o == ref[c]
        r == AddOp(k, heap[o], v)
        cur == Cur(c)
        a == AddOp(k, cur.alone, v)
        valid == cur.valid /\ Follows(cur.top, k)
        ok == cur.ok /\ r.thrown = NoError /\ a.thrown = NoError
    IN  /\ n > 0
        /\ n' = n - 1
        /\ heap' = IF r.fork THEN [heap EXCEPT ![c] = r.made] ELSE [heap EXCEPT ![o] = r.this]
        /\ ref' = IF r.fork THEN [ref EXCEPT ![c] = c] ELSE ref
        /\ chain' = [chain EXCEPT ![c] = [cur EXCEPT !.want = IF valid THEN @ \o Render(k, v) ELSE <<>>,
                                                       !.top = IF valid THEN k ELSE 0,
                                                       !.valid = valid,
                                                       !.alone = IF ~ok THEN EmptyBuilder ELSE IF a.fork THEN a.made ELSE a.this,
                                                       !.ok = ok]]
        /\ hist' = IF r.thrown # NoError THEN [hist EXCEPT ![o].clean = FALSE]
                   ELSE IF r.fork THEN [hist EXCEPT ![c] = [added |-> {1}, clean |-> TRUE]]
                   ELSE [hist EXCEPT ![o].added = @ \cup {k}]
        /\ last' = [op |-> "add", k |-> k, v |-> v, c |-> c, obj |-> o, thrown |-> r.thrown, athrown |-> a.thrown, ret |-> <<>>, aret |-> <<>>,
                    added |-> hist[o].added, clean |-> hist[o].clean,
                    before |-> IF r.fork THEN <<>> ELSE heap[o].result,
                    track |-> cur.ok /\ cur.shared, fresh |-> cur.ok /\ cur.fresh, afterCombine |-> FALSE]
        /\ UNCHANGED rotVars

\* chain c calls stringify() on the builder it holds
Stringify(c) ==
    LET o == ref[c]
        s == stringify(heap[o])
        cur == Cur(c)
    IN  /\ n > 0
        /\ n' = n - 1
        /\ heap' = [heap EXCEPT ![o] = s.this]
        /\ chain' = [chain EXCEPT ![c] = [cur EXCEPT !.fin = TRUE]]
        /\ hist' = [hist EXCEPT ![o] = FreshHist]
        /\ last' = [op |-> "stringify", k |-> 0, v |-> <<>>, c |-> c, obj |-> o, thrown |-> NoError, athrown |-> NoError,
                    ret |-> s.res, aret |-> stringify(cur.alone).res,
                    added |-> hist[o].added, clean |-> hist[o].clean,
                    before |-> heap[o].result,
                    track |-> cur.ok /\ cur.shared, fresh |-> cur.ok /\ cur.fresh,
                    afterCombine |-> last.op = "combine" /\ last.c = c]
        /\ UNCHANGED <<ref, rotVars>>

\* cssSelectorBuilder.combine(x, com, y), x and y the builders chains c and d
\* hold, each a selector built without error and not empty; c goes on with
\* the builder returned (cssSelectorBuilder), d starts a new expression
Combine(c, d, com) ==
    LET h == combine(heap, Root, ref[c], com, ref[d])
        want == (Cur(c).alone.result \o Separator(com)) \o Cur(d).alone.result
    IN  /\ c # d
        /\ Cur(c).ok /\ Cur(c).alone.result # <<>>
        /\ Cur(d).ok /\ Cur(d).alone.result # <<>>
        /\ n > 0
        /\ n' = n - 1
        /\ heap' = [o \in Objs |-> IF o \in {c, d} THEN EmptyBuilder ELSE h[o]]
        /\ ref' = [ref EXCEPT ![c] = Root, ![d] = Root]
        /\ chain' = [chain EXCEPT ![c] = [want |-> want, top |-> 0, valid |-> FALSE, alone |-> [result |-> want, index |-> <<>>],
                                         ok |-> TRUE, fin |-> FALSE, shared |-> FALSE, comb |-> TRUE, fresh |-> FALSE],
                                  ![d] = FreshChain(TRUE)]
        /\ hist' = [o \in Objs |-> IF o \in {c, d, ref[c], ref[d]} THEN FreshHist ELSE hist[o]]
        /\ last' = [NoCall EXCEPT !.op = "combine", !.c = c]
        /\ UNCHANGED rotVars

\* chain c drops the builder it holds without stringify() and starts a new
\* expression from cssSelectorBuilder
Restart(c) ==
    /\ ref[c] # Root \/ chain[c] # FreshChain(TRUE)
    /\ heap' = [heap EXCEPT ![c] = EmptyBuilder]
    /\ ref' = [ref EXCEPT ![c] = Root]
    /\ chain' = [chain EXCEPT ![c] = FreshChain(TRUE)]
    /\ hist' = [hist EXCEPT ![c] = FreshHist]
    /\ last' = [NoCall EXCEPT !.op = "restart", !.c = c]
    /\ UNCHANGED <<n, rotVars>>

\* one expression at a time, built and rendered or dropped
Next ==
    \/ \E k \in Ranks : \E v \in Values(k) : Add(1, k, v)
    \/ Stringify(1)
    \/ Restart(1)

Spec == Init /\ [][Next]_vars

\* NChains expressions built side by side and combined
NextShared ==
    \/ \E c \in Chains, k \in Ranks : Add(c, k, ValueOf(c))
    \/ \E c \in Chains : Stringify(c)
    \/ \E c \in Chains, d \in Chains, com \in Combinators : Combine(c, d, com)
    \/ \E c \in Chains : Restart(c)

InitShared ==
    /\ heap = [o \in Objs |-> EmptyBuilder]
    /\ ref = [c \in Chains |-> Root]
    /\ chain = [c \in Chains |-> FreshChain(TRUE)]
    /\ hist = [o \in Objs |-> FreshHist]
    /\ last = NoCall
    /\ n = MaxCallsShared
    /\ rotIn = <<>>
    /\ rotOut = <<>>
    /\ rotPc = "idle"

SpecShared == InitShared /\ [][NextShared]_vars

-----------------------------------------------------------------------------
(* encodeToRot13: characters are their codes                               *)

\* the characters of the input strings: the ends and the middle of both
\* letter ranges, and the non-letters next to them
RotChars == {65, 77, 78, 90, 97, 109, 110, 122, 32, 64, 91, 96, 123}

\* the strings over RotChars of length at most len
RECURSIVE RotStrings(_)
RotStrings(len) ==
    IF len = 0 THEN {<<>>}
    ELSE LET shorter == RotStrings(len - 1)
         IN  shorter \cup {Append(t, ch) : t \in shorter, ch \in RotChars}

\* String.prototype.toUpperCase / toLocaleLowerCase on one ASCII character
toUpperCase(code) == IF code >= 97 /\ code <= 122 THEN code - 32 ELSE code

toLocaleLowerCase(code) == IF code >= 65 /\ code <= 90 THEN code + 32 ELSE code

\* 'ABCDEFGHIJKLMNOPQRSTUVWXYZabcdefghijklmnopqrstuvwxyz'.includes(item)
lettersIncludes(code) == (code >= 65 /\ code <= 90) \/ (code >= 97 /\ code <= 122)

\* codeItem() with the first half of the alphabet one letter too long
codeItem_offByOne(code) ==
    IF code < 79 THEN <<code + 13>>
    ELSE IF code < 91 THEN <<code - 13>>
    ELSE <<>>

\* codeItem(code): a string of one character, or the empty string
codeItem(code) ==
    IF code < 78 THEN <<code + 13>>
    ELSE IF code < 91 THEN <<code - 13>>
    ELSE <<>>

\* the callback of map: the string one character is replaced by
mapItem(item) ==
    IF lettersIncludes(item)
    THEN IF item = toUpperCase(item)
         THEN codeItem(item)
         ELSE [i \in DOMAIN codeItem(toUpperCase(item)) |-> toLocaleLowerCase(codeItem(toUpperCase(item))[i])]
    ELSE <<item>>

\* str.split('').map(...).join('')
RECURSIVE encodeToRot13(_)
encodeToRot13(str) ==
    IF str = <<>> THEN <<>>
    ELSE mapItem(Head(str)) \o encodeToRot13(Tail(str))

InitRot ==
    /\ heap = [o \in Objs |-> EmptyBuilder]
    /\ ref = [c \in Chains |-> Root]
    /\ chain = [c \in Chains |-> FreshChain(TRUE)]
    /\ hist = [o \in Objs |-> FreshHist]
    /\ last = NoCall
    /\ n = 0
    /\ rotIn \in RotStrings(MaxStrLen)
    /\ rotOut = <<>>
    /\ rotPc = "input"

\* encodeToRot13(s)
Encode ==
    /\ rotPc = "input"
    /\ rotOut' = encodeToRot13(rotIn)
    /\ rotPc' = "once"
    /\ UNCHANGED <<rotIn, builderVars>>

\* encodeToRot13(encodeToRot13(s))
EncodeAgain ==
    /\ rotPc = "once"
    /\ rotOut' = encodeToRot13(rotOut)
    /\ rotPc' = "twice"
    /\ UNCHANGED <<rotIn, builderVars>>

NextRot == Encode \/ EncodeAgain

SpecRot == InitRot /\ [][NextRot]_vars

-----------------------------------------------------------------------------
(* Properties                                                              *)

AtMostOnce == {1, 2, 6}

\* C1: a chain that starts with cssSelectorBuilder.element(e) and adds its
\* fragments in non-decreasing rank order (element, id, pseudo-element at
\* most once) stringifies to the rendered fragments in call order, and
\* nothing else.
C1_StringifyRendersFragmentsInCallOrder ==
    \A c \in Chains :
        (last.op = "stringify" /\ last.c = c /\ chain[c].valid /\ chain[c].top >= 1)
            => last.ret = chain[c].want

C1_Witness ==
    /\ last.op = "stringify"
    /\ last.c = 1
    /\ chain[1].valid
    /\ last.added = {1, 2, 3}
    /\ last.ret = <<"b", "#", "a", ".", "a", ".", "b">>

\* C2: on a builder with no error since it was created or last stringified,
\* element(), id() or pseudoElement() raises DuplicateError when a fragment
\* of its category was already added, whatever else was added in between;
\* class(), attr() and pseudoClass() never raise DuplicateError.
C2_SecondOfAtMostOnceRaisesDuplicateError ==
    last.op = "add" =>
        /\ (last.clean /\ last.k \in AtMostOnce /\ last.k \in last.added) => last.thrown = DuplicateError
        /\ last.k \notin AtMostOnce => last.thrown # DuplicateError

C2_Witness ==
    /\ last.op = "add"
    /\ last.clean
    /\ last.k = 2
    /\ last.added = {1, 2, 3}
    /\ last.thrown = DuplicateError

\* C3: on a builder with no error since it was created or last stringified,
\* id(), class(), attr() or pseudoClass() (rank r) that does not repeat an
\* at-most-once category raises OrderError when a fragment of rank greater
\* than r was already added, and otherwise succeeds and appends its fragment.
C3_LowerRankAfterHigherRaisesOrderError ==
    (last.op = "add" /\ last.clean /\ last.k \in 2..5 /\ ~(last.k \in AtMostOnce /\ last.k \in last.added)) =>
        IF \E r \in last.added : r > last.k
        THEN last.thrown = OrderError
        ELSE /\ last.thrown = NoError
             /\ heap[last.obj].result = last.before \o Render(last.k, last.v)

C3_Witness ==
    /\ last.op = "add"
    /\ last.clean
    /\ last.k = 2
    /\ last.added = {1, 3}
    /\ last.thrown = OrderError

\* C5: stringify() returns the accumulated text and leaves the builder with
\* empty text and empty category tracking; the calls that follow on that
\* builder (a second stringify(), or a new chain) give what they give on a
\* fresh empty builder.
C5_StringifyIsDestructiveRead ==
    /\ last.op = "stringify" => (last.ret = last.before /\ heap[last.obj] = EmptyBuilder)
    /\ (last.op \in {"add", "stringify"} /\ last.fresh) => (last.thrown = last.athrown /\ last.ret = last.aret)

C5_Witness ==
    /\ last.op = "add"
    /\ last.fresh
    /\ last.k = 2
    /\ last.obj # Root
    /\ last.thrown = NoError
    /\ heap[last.obj].result = <<"#", "a">>

\* C10: an add-operation that raises DuplicateError or OrderError leaves the
\* receiver's text as it was before the call and its category tracking
\* empty, and returns no builder (the caller holds what it held).
C10_ErrorKeepsTextAndClearsIndex ==
    (last.op = "add" /\ last.thrown # NoError) =>
        /\ heap[last.obj].result = last.before
        /\ heap[last.obj].index = <<>>
        /\ ref[last.c] = last.obj

C10_Witness ==
    /\ last.op = "add"
    /\ last.thrown = OrderError
    /\ last.obj # Root
    /\ Len(last.before) >= 3
    /\ heap[last.obj].result = last.before

\* the fragments of the at-most-once categories in a text built by
\* add-operations from one-character values
IsValueChar(ch) == \E v \in UNION {Values(k) : k \in Ranks} : ch = v[1]

CountId(text) == Cardinality({i \in 1..Len(text) : text[i] = "#"})

CountPseudoElement(text) == Cardinality({i \in 2..Len(text) : text[i - 1] = ":" /\ text[i] = ":"})

CountElement(text) == Cardinality({i \in 1..Len(text) : IsValueChar(text[i]) /\ (i = 1 \/ IsValueChar(text[i - 1]) \/ text[i - 1] = "]")})

\* C6: whatever add-operations were called on a builder, errors included,
\* its text holds at most one Element, one Id and one PseudoElement
\* fragment.
C6_AtMostOneElementIdPseudoElement ==
    \A o \in Objs :
        /\ CountElement(heap[o].result) <= 1
        /\ CountId(heap[o].result) <= 1
        /\ CountPseudoElement(heap[o].result) <= 1

\* C7: element() on a builder that already holds a fragment of higher rank
\* raises OrderError.
C7_ElementAfterHigherRankRaisesOrderError ==
    (last.op = "add" /\ last.k = 1 /\ last.clean /\ \E r \in last.added : r > 1) => last.thrown = OrderError

\* C4: combine(a, c, b).stringify() returns text(a), c with a space on each
\* side, text(b), text(x) being what x.stringify() gives on its own.
C4_CombineJoinsOperandTexts ==
    (last.op = "stringify" /\ last.afterCombine) => last.ret = last.aret

\* C9: the outcome of every call of a chain started on cssSelectorBuilder
\* (the error raised, the text stringify() returns) is the outcome of the
\* same chain run alone on a fresh empty builder.
C9_ChainsDoNotInterfere ==
    (last.op \in {"add", "stringify"} /\ last.track) => (last.thrown = last.athrown /\ last.ret = last.aret)

\* the letter 13 places on in its own case, any other character unchanged
Rot13Char(code) ==
    IF code >= 65 /\ code <= 90 THEN 65 + ((code - 65 + 13) % 26)
    ELSE IF code >= 97 /\ code <= 122 THEN 97 + ((code - 97 + 13) % 26)
    ELSE code

\* C8: encodeToRot13 maps every letter to the letter 13 places on in its
\* case, leaves the other characters as they are (so the length is kept),
\* and applied twice gives the string back.
C8_Rot13IsInvolution ==
    /\ rotPc = "once" => (Len(rotOut) = Len(rotIn) /\ \A i \in 1..Len(rotIn) : rotOut[i] = Rot13Char(rotIn[i]))
    /\ rotPc = "twice" => rotOut = rotIn

C8_Witness ==
    /\ rotPc = "twice"
    /\ rotIn = <<78, 122, 64>>
    /\ rotOut = rotIn

=============================================================================
